---- MODULE Spec2Model ----
(***************************************************************************)
(* FormatFlex authentication lifecycle: the local-storage backed           *)
(* MockAuthService (src/lib/mockAuth.ts) and the AuthProvider session      *)
(* context (src/contexts/AuthContext.tsx) that drives it, and above them   *)
(* the components that use the context: the ProtectedRoute guard, the      *)
(* AuthModal, the App that owns a modal and listens for openAuth, the      *)
(* UserMenu, the InteractiveDemo and the useAuth hook; beside them the     *)
(* session context over the external identity backend.                     *)
(*                                                                         *)
(* An optional value (User | null, a missing storage key) is a set with    *)
(* at most one element: {} is null, {v} is the value v.                    *)
(***************************************************************************)
EXTENDS Integers, Sequences, FiniteSets, TLC

\* ---- inputs and bounds --------------------------------------------------
Emails == {"alice@example.com", "bob@example.com"}
Passwords == {"supersecret", "wrongpass"}

\* the messages of the exceptions a failing service call may throw; an
\* exception may carry no message
ThrownMessages == {"Network down", ""}

\* the opaque ids the generator can produce
Ids == {"id-1", "id-2"}

\* calls of the session context that may be pending at the same time
MaxInFlight == 2

\* close timers of the sign-up confirmation that may be pending at the same
\* time
MaxTimers == 2

\* mounts of the backend-backed session context in one run
MaxMounts == 3

\* starts of the demo pipeline that are followed
MaxStarts == 2

Modes == {"signin", "signup"}

\* the artificial latencies of the mock service, in milliseconds
SignUpDelay == 500
SignInDelay == 500
SignOutDelay == 200
GetCurrentUserDelay == 100

VARIABLES
    users,          \* MockAuthService.users: email -> optional account record
    currentUser,    \* MockAuthService.currentUser: optional User
    localStorage,   \* the two namespaced keys of browser local storage
    user,           \* AuthProvider state: optional User
    session,        \* AuthProvider state: optional {user, access_token}
    loading,        \* AuthProvider state
    calls,          \* pending auth calls of the provider, in invocation order
    last,           \* observer: what the last step was and what it returned
    issued,         \* observer: email -> what a successful signUp returned
    marker,         \* observer: user of the last completed operation that
                    \* touched the active-session marker
    app,            \* App state: mounted, isAuthModalOpen, authMode
    guard,          \* ProtectedRoute: fallback prop, showAuthModal, and what
                    \* it renders
    modal,          \* AuthModal state: mode, loading, error, success, and
                    \* its pending close timers
    hook,           \* observer: what the last useAuth call of a consumer did
    menu,           \* UserMenu state: mounted, isOpen
    demo,           \* InteractiveDemo state and its pending timers
    remote          \* the session context over the external identity
                    \* backend: its state and its subscription

vars == <<users, currentUser, localStorage, user, session, loading,
          calls, last, issued, marker, app, guard, modal, hook,
          menu, demo, remote>>

\* the components and the context that the pages above do not mount
more == <<menu, demo, remote>>

\* the state of the components above the session context
ui == <<app, guard, modal, hook, more>>

\* the state of the service and the session context
ctx == <<users, currentUser, localStorage, user, session, loading, calls,
         issued, marker>>

\* ---- data -----------------------------------------------------------------
NoUsers == [e \in Emails |-> {}]

EmptyStorage == [formatflex_users |-> {}, formatflex_current_user |-> {}]

\* variant: the account record itself is handed out
Projection_whole(rec) == rec

\* the public User of an account record: the password is left out
Projection(rec) ==
    [id |-> rec.id, email |-> rec.email, created_at |-> rec.created_at]

\* the session wrapper the provider builds around a user
SessionOf(u) == {[user |-> x, access_token |-> "mock-token"] : x \in u}

Snapshot == [user |-> user, session |-> session]

\* the clock a sign-up reads: it has ticked once for every account created
Now(us) == Cardinality({e \in Emails : us[e] # {}}) + 1

UsedIds(us) == {r.id : r \in UNION {us[e] : e \in Emails}}

\* ---- Credential Store -----------------------------------------------------
\* the account mapping is written as its list of [email, record] entries
Entries(us) == UNION {{<<e, r>> : r \in us[e]} : e \in Emails}

saveToStorage(us, cu, ls) ==
    [formatflex_users |-> {Entries(us)},
     formatflex_current_user |->
        IF cu # {} THEN cu ELSE ls.formatflex_current_user]

loadFromStorage(ls) ==
    [users |-> [e \in Emails |->
                  {ent[2] : ent \in {x \in UNION ls.formatflex_users :
                                        x[1] = e}}],
     currentUser |-> ls.formatflex_current_user]

\* ---- Auth Service (MockAuthService) ---------------------------------------
\* each operation maps the service state to the new state and the result
SvcResult(us, cu, ls, u, err) ==
    [users |-> us, currentUser |-> cu, localStorage |-> ls,
     user |-> u, error |-> err]

\* variant: a duplicate sign-up overwrites the stored record
MockAuth_signUp_overwrites(us, cu, ls, email, password, id, now) ==
    LET rec == [email |-> email, password |-> password,
                id |-> id, created_at |-> now]
        us2 == [us EXCEPT ![email] = {rec}]
        cu2 == {Projection(rec)}
    IN  IF us[email] # {}
        THEN SvcResult(us2, cu, saveToStorage(us2, cu, ls), {},
                       "DuplicateAccount")
        ELSE SvcResult(us2, cu2, saveToStorage(us2, cu2, ls), cu2, "")

MockAuth_signUp(us, cu, ls, email, password, id, now) ==
    IF us[email] # {}
    THEN SvcResult(us, cu, ls, {}, "DuplicateAccount")
    ELSE LET rec == [email |-> email, password |-> password,
                     id |-> id, created_at |-> now]
             us2 == [us EXCEPT ![email] = {rec}]
             cu2 == {Projection(rec)}
         IN  SvcResult(us2, cu2, saveToStorage(us2, cu2, ls), cu2, "")

MockAuth_signIn(us, cu, ls, email, password) ==
    LET match == {r \in us[email] : r.password = password}
    IN  IF match = {}
        THEN SvcResult(us, cu, ls, {}, "InvalidCredentials")
        ELSE LET cu2 == {Projection(r) : r \in match}
             IN  SvcResult(us, cu2, saveToStorage(us, cu2, ls), cu2, "")

\* variant: signOut wipes the whole storage instead of its own key
MockAuth_signOut_clearsStorage(us, cu, ls) ==
    SvcResult(us, {}, EmptyStorage, {}, "")

\* variant: signOut forgets to remove the persisted user
MockAuth_signOut_keepsItem(us, cu, ls) ==
    SvcResult(us, {}, ls, {}, "")

MockAuth_signOut(us, cu, ls) ==
    SvcResult(us, {}, [ls EXCEPT !.formatflex_current_user = {}], {}, "")

MockAuth_getCurrentUser(cu) == cu

\* ---- Session Context (AuthProvider) ---------------------------------------
\* what signUp/signIn do with the awaited result
\* variant: the result's user is stored whether or not there is an error
AuthProvider_applyResult_ignoresError(u, s, result) ==
    [user |-> result.user, session |-> SessionOf(result.user)]

\* variant: a result is dropped when somebody is signed in already
AuthProvider_applyResult_firstWins(u, s, result) ==
    IF result.error # "" \/ u # {}
    THEN [user |-> u, session |-> s]
    ELSE [user |-> result.user, session |-> SessionOf(result.user)]

AuthProvider_applyResult(u, s, result) ==
    IF result.error # ""
    THEN [user |-> u, session |-> s]
    ELSE IF result.user # {}
         THEN [user |-> result.user, session |-> SessionOf(result.user)]
         ELSE [user |-> u, session |-> s]

\* what checkSession does with the awaited user; a rejection skips to catch
AuthProvider_applyRestore(u, s, found, rejected) ==
    IF ~rejected /\ found # {}
    THEN [user |-> found, session |-> SessionOf(found)]
    ELSE [user |-> u, session |-> s]

\* variant: loading is reset after the await instead of in a finally block
AuthProvider_restoreLoading_noFinally(l, rejected) ==
    IF rejected THEN l ELSE FALSE

\* loading after checkSession: its finally block runs on either path
AuthProvider_restoreLoading(l, rejected) == FALSE

\* variant: loading is reset on the error paths only
AuthProvider_callLoading_errorOnly(l, result) ==
    IF result.error = "" THEN l ELSE FALSE

\* variant: loading is reset on the success path only
AuthProvider_callLoading_successOnly(l, result) ==
    IF result.error # "" THEN l ELSE FALSE

\* loading after signUp/signIn: their finally block runs on every path
AuthProvider_callLoading(l, result) == FALSE

\* what signUp/signIn do when the awaited call throws: the catch block sets
\* no state
AuthProvider_applyThrown(u, s) == [user |-> u, session |-> s]

\* how the promise of signUp/signIn settles: err is the error of the awaited
\* result ("" for none), thrown the message of the exception caught, if any;
\* the returned error is optional ({} is null)
\* variant: there is no catch block, the exception escapes
AuthProvider_return_noCatch(err, thrown) ==
    IF thrown # {}
    THEN [rejected |-> TRUE, error |-> {}]
    ELSE [rejected |-> FALSE, error |-> IF err = "" THEN {} ELSE {err}]

AuthProvider_return(err, thrown) ==
    IF thrown # {}
    THEN [rejected |-> FALSE,
          error |-> {IF m # "" THEN m ELSE "An unexpected error occurred" :
                        m \in thrown}]
    ELSE [rejected |-> FALSE, error |-> IF err = "" THEN {} ELSE {err}]

\* what signOut does once the service call settled
\* variant: signOut clears the user and leaves the session
AuthProvider_applySignOut_keepsSession(u, s, rejected) ==
    IF rejected
    THEN [user |-> u, session |-> s]
    ELSE [user |-> {}, session |-> s]

AuthProvider_applySignOut(u, s, rejected) ==
    IF rejected
    THEN [user |-> u, session |-> s]
    ELSE [user |-> {}, session |-> {}]

\* ---- pending calls and timers ---------------------------------------------
Delay(op) ==
    CASE op = "signUp" -> SignUpDelay
      [] op = "signIn" -> SignInDelay
      [] op = "signOut" -> SignOutDelay
      [] op = "restore" -> GetCurrentUserDelay

\* pre and raced are observer fields: the provider state when the call was
\* made, and whether this signIn was pending together with a signIn for
\* another email
Call(op, email, password, raced) ==
    [op |-> op, email |-> email, password |-> password,
     pre |-> Snapshot, raced |-> raced]

\* the timer of an earlier call with the same or a shorter delay fires first
CanSettle(i) ==
    \A j \in 1..(i - 1) : Delay(calls[j].op) > Delay(calls[i].op)

\* variant: a call that settles cancels the calls started after it
RemoveAt_cancelsLater(s, i) == SubSeq(s, 1, i - 1)

\* the pending calls once call i has settled
RemoveAt(s, i) == SubSeq(s, 1, i - 1) \o SubSeq(s, i + 1, Len(s))

\* a new signIn and the pending signIns for other emails race each other
IsRival(c, email) == c.op = "signIn" /\ c.email # email

MarkRaced(email) ==
    [j \in 1..Len(calls) |->
        IF IsRival(calls[j], email) THEN [calls[j] EXCEPT !.raced = TRUE]
                                    ELSE calls[j]]

Raced(email) == \E j \in 1..Len(calls) : IsRival(calls[j], email)

\* ---- observer records -----------------------------------------------------
\* ret is how the promise of a settled signUp/signIn settled, thrown the
\* message of the exception the service call threw, if it threw
NoReturn == [rejected |-> FALSE, error |-> {}]

Event(ev, c, err, ruser) ==
    [ev |-> ev, op |-> c.op, email |-> c.email, password |-> c.password,
     pre |-> c.pre, raced |-> c.raced, error |-> err, ruser |-> ruser,
     thrown |-> {}, onClose |-> FALSE, mode |-> "",
     ret |-> IF ev = "settle" /\ c.op \in {"signUp", "signIn"}
             THEN AuthProvider_return(err, {})
             ELSE NoReturn]

Thrown(c, m) ==
    [Event("settle", c, "rejected", {}) EXCEPT
        !.thrown = {m}, !.ret = AuthProvider_return("", {m})]

NoCall == [op |-> "", email |-> "", password |-> "",
           pre |-> [user |-> {}, session |-> {}], raced |-> FALSE]

Invoked == Event("invoke", NoCall, "", {})
Reloaded == Event("reload", NoCall, "", {})

\* a step of a component: closed tells whether the modal's onClose was called
UiEvent(ev, closed) ==
    [Event(ev, NoCall, "", {}) EXCEPT !.onClose = closed]

\* an openAuth event with detail {mode: m} was dispatched on the window
Dispatched(m) == [UiEvent("openAuth", FALSE) EXCEPT !.mode = m]

\* ---- useAuth ----------------------------------------------------------------
\* the value the provider hands to its descendants; the three functions are
\* named
AuthContextValue ==
    [user |-> user, session |-> session, loading |-> loading,
     signUp |-> "signUp", signIn |-> "signIn", signOut |-> "signOut"]

\* variant: the hook hands out whatever useContext returned
useAuth_noGuard(context) ==
    [threw |-> {}, value |-> context]

\* context is what useContext returned: {} (undefined) outside a provider
useAuth(context) ==
    IF context = {}
    THEN [threw |-> {"useAuth must be used within an AuthProvider"},
          value |-> {}]
    ELSE [threw |-> {}, value |-> context]

\* ---- Button -----------------------------------------------------------------
\* variant: a loading button stays clickable
Button_disabled_whileIdle(disabled, ld) == disabled

\* the disabled attribute of the rendered button element
Button_disabled(disabled, ld) == disabled \/ ld

\* ---- Route Guard (ProtectedRoute) -------------------------------------------
\* variant: the guard does not look at loading
ProtectedRoute_render_ignoresLoading(l, u, fb) ==
    IF u = {}
    THEN IF fb THEN "fallback" ELSE "prompt"
    ELSE "children"

\* what the guard renders: the loading indicator, the supplied fallback, the
\* built-in sign-in prompt, or the protected children
ProtectedRoute_render(l, u, fb) ==
    IF l
    THEN "loading"
    ELSE IF u = {}
         THEN IF fb THEN "fallback" ELSE "prompt"
         ELSE "children"

\* the views of the unauthenticated state: the guard mounts its AuthModal
\* next to them
Unauthenticated == {"fallback", "prompt"}

\* wasUnauth and submitted are observer fields: the last view of the guard
\* other than the loading indicator was its unauthenticated one, and a
\* submit of its modal is pending
ProtectedRoute_initial(fb) ==
    [fallback |-> fb, showAuthModal |-> FALSE,
     view |-> ProtectedRoute_render(TRUE, {}, fb),
     wasUnauth |-> FALSE, submitted |-> FALSE]

\* ---- Auth Modal (AuthModal) -------------------------------------------------
GenericError == "An unexpected error occurred"

Confirmation == "Account created! Check your email to verify your account."

AuthModal_initial(initialMode) ==
    [mode |-> initialMode, loading |-> FALSE, error |-> "", success |-> "",
     timers |-> 0]

AuthModal_toggleMode(m) ==
    [m EXCEPT !.mode = IF @ = "signin" THEN "signup" ELSE "signin"]

\* the session context method a submit calls in each sub-mode
AuthModal_method(mode) == IF mode = "signin" THEN "signIn" ELSE "signUp"

\* submit, up to the awaited call
AuthModal_handleSubmit(m) ==
    [m EXCEPT !.loading = TRUE, !.error = "", !.success = ""]

\* whether the submit of method op that settled with ret calls onClose
\* right away
\* variant: a sign-up success closes at once as well
AuthModal_closesAfter_anySuccess(op, ret) ==
    ~ret.rejected /\ ret.error = {}

AuthModal_closesAfter(op, ret) ==
    ~ret.rejected /\ ret.error = {} /\ op = "signIn"

\* the modal once the awaited call settled with ret
\* variant: a rejection is not caught, the message stays empty
AuthModal_afterSubmit_noCatch(m, op, ret) ==
    IF ret.rejected
    THEN [m EXCEPT !.loading = FALSE]
    ELSE IF ret.error # {}
         THEN [m EXCEPT !.loading = FALSE,
                        !.error = CHOOSE e \in ret.error : TRUE]
         ELSE IF op = "signIn"
              THEN [m EXCEPT !.loading = FALSE]
              ELSE [m EXCEPT !.loading = FALSE, !.success = Confirmation,
                             !.timers = @ + 1]

AuthModal_afterSubmit(m, op, ret) ==
    IF ret.rejected
    THEN [m EXCEPT !.loading = FALSE, !.error = GenericError]
    ELSE IF ret.error # {}
         THEN [m EXCEPT !.loading = FALSE,
                        !.error = CHOOSE e \in ret.error : TRUE]
         ELSE IF op = "signIn"
              THEN [m EXCEPT !.loading = FALSE]
              ELSE [m EXCEPT !.loading = FALSE, !.success = Confirmation,
                             !.timers = @ + 1]

\* the parent opens the modal: the sub-mode follows the initial mode
AuthModal_open(m, initialMode) == [m EXCEPT !.mode = initialMode]

\* closing, by any path: the message is emptied and the sub-mode goes back
\* to the initial mode
AuthModal_handleClose(m, initialMode) ==
    [m EXCEPT !.error = "", !.mode = initialMode]

\* ---- App --------------------------------------------------------------------
\* listening tells whether the openAuth listener is registered on the window
App_initial ==
    [mounted |-> TRUE, listening |-> TRUE,
     isAuthModalOpen |-> FALSE, authMode |-> "signin"]

App_unmounted ==
    [mounted |-> FALSE, listening |-> FALSE,
     isAuthModalOpen |-> FALSE, authMode |-> "signin"]

\* variant: the effect's cleanup leaves the listener registered
App_cleanup_keepsListener(a) ==
    [App_unmounted EXCEPT !.listening = a.listening]

\* unmounting: the state is gone and the effect's cleanup removes the listener
App_cleanup(a) == App_unmounted

\* variant: the listener opens the modal in the mode it was left in
App_handleOpenAuth_keepsMode(a, m) ==
    IF a.listening /\ a.mounted
    THEN [a EXCEPT !.isAuthModalOpen = TRUE]
    ELSE a

\* an openAuth event with detail {mode: m} reaches the listener, if there
\* is one; a state update of an unmounted component is dropped
App_handleOpenAuth(a, m) ==
    IF a.listening /\ a.mounted
    THEN [a EXCEPT !.isAuthModalOpen = TRUE, !.authMode = m]
    ELSE a

\* the Get Started and Start Free Trial buttons
App_openSignup(a) ==
    [a EXCEPT !.isAuthModalOpen = TRUE, !.authMode = "signup"]

\* variant: closing keeps the mode
App_closeAuthModal_keepsMode(a) ==
    [a EXCEPT !.isAuthModalOpen = FALSE]

App_closeAuthModal(a) ==
    [a EXCEPT !.isAuthModalOpen = FALSE, !.authMode = "signin"]

\* ---- User Menu (UserMenu) ---------------------------------------------------
\* awaiting counts the handleSignOut calls of this menu that wait for
\* signOut, stale those of menus that have unmounted since
UserMenu_initial ==
    [mounted |-> TRUE, isOpen |-> FALSE, awaiting |-> 0, stale |-> 0]

\* variant: the menu renders for a visitor too
UserMenu_render_ignoresUser(u, isOpen) ==
    IF isOpen THEN "dropdown" ELSE "trigger"

UserMenu_render(u, isOpen) ==
    IF u = {} THEN "nothing"
    ELSE IF isOpen THEN "dropdown" ELSE "trigger"

\* the trigger button
UserMenu_toggle(m) == [m EXCEPT !.isOpen = ~@]

\* the mousedown listener on the document: menuRef.current is the rendered
\* root element, inside tells whether it contains the target
UserMenu_handleClickOutside(m, rendered, inside) ==
    IF rendered /\ ~inside THEN [m EXCEPT !.isOpen = FALSE] ELSE m

\* variant: handleSignOut leaves the dropdown as it is
UserMenu_afterSignOut_keepsOpen(m) ==
    [m EXCEPT !.awaiting = @ - 1]

\* handleSignOut after its await
UserMenu_afterSignOut(m) ==
    [m EXCEPT !.isOpen = FALSE, !.awaiting = @ - 1]

\* the menu unmounts: its state is gone, its pending handleSignOut calls
\* continue on a component that no longer exists
UserMenu_unmounted(m) ==
    [mounted |-> FALSE, isOpen |-> FALSE, awaiting |-> 0,
     stale |-> m.stale + m.awaiting]

\* ---- Interactive Demo (InteractiveDemo) -------------------------------------
\* timer1 and timer2 count the pending timers of handleDemo; starts, runs1
\* and runs2 count how often the pipeline was started and its two timer
\* callbacks ran
InteractiveDemo_initial ==
    [currentStep |-> 0, isProcessing |-> FALSE, showResult |-> FALSE,
     showEmailCapture |-> FALSE, showAuthPrompt |-> FALSE,
     timer1 |-> 0, timer2 |-> 0, starts |-> 0, runs1 |-> 0, runs2 |-> 0]

\* variant: handleDemo does not look at the user
InteractiveDemo_handleDemo_noAuth(d, u) ==
    [d EXCEPT !.isProcessing = TRUE, !.currentStep = 1,
              !.timer1 = @ + 1, !.starts = @ + 1]

InteractiveDemo_handleDemo(d, u) ==
    IF u = {}
    THEN [d EXCEPT !.showAuthPrompt = TRUE]
    ELSE [d EXCEPT !.isProcessing = TRUE, !.currentStep = 1,
                   !.timer1 = @ + 1, !.starts = @ + 1]

\* variant: the first timer finishes the pipeline
InteractiveDemo_firstTimer_finishes(d) ==
    [d EXCEPT !.isProcessing = FALSE, !.showResult = TRUE,
              !.currentStep = 3, !.timer1 = @ - 1, !.runs1 = @ + 1]

\* the callback of the outer timer: it sets the inner timer
InteractiveDemo_firstTimer(d) ==
    [d EXCEPT !.currentStep = 2, !.timer1 = @ - 1, !.timer2 = @ + 1,
              !.runs1 = @ + 1]

\* the callback of the inner timer
InteractiveDemo_secondTimer(d) ==
    [d EXCEPT !.isProcessing = FALSE, !.showResult = TRUE,
              !.currentStep = 3, !.timer2 = @ - 1, !.runs2 = @ + 1]

InteractiveDemo_handleDownload(d, u) ==
    IF u = {}
    THEN [d EXCEPT !.showAuthPrompt = TRUE]
    ELSE [d EXCEPT !.showEmailCapture = TRUE]

\* what the demo renders
\* variant: the start button stays while the pipeline runs
InteractiveDemo_startButton_always(d) == ~d.showResult

InteractiveDemo_startButton(d) == ~d.isProcessing /\ ~d.showResult

InteractiveDemo_progress(d) ==
    IF ~d.isProcessing THEN "none"
    ELSE IF d.currentStep = 1 THEN "Analyzing structure..."
    ELSE IF d.currentStep = 2 THEN "Applying formatting..."
    ELSE ""

InteractiveDemo_result(d) == d.showResult

InteractiveDemo_downloadButton(d) == d.showResult /\ ~d.showEmailCapture

InteractiveDemo_authPrompt(d) == d.showAuthPrompt

InteractiveDemo_downloadDialog(d, u) == d.showEmailCapture /\ u # {}

\* Cancel and Sign Up Free of the sign-up prompt
InteractiveDemo_closePrompt(d) == [d EXCEPT !.showAuthPrompt = FALSE]

\* Cancel and Download Sample of the download dialog
InteractiveDemo_closeDialog(d) == [d EXCEPT !.showEmailCapture = FALSE]

\* ---- Session Context over the external identity backend ---------------------
\* the sessions the backend may hold: an account and a token, which a
\* refresh replaces
RemoteUsers ==
    {[id |-> "user-1", email |-> "alice@example.com"],
     [id |-> "user-2", email |-> "bob@example.com"]}

RemoteSessions ==
    {[user |-> u, access_token |-> t] :
        u \in RemoteUsers, t \in {"tok", "tok2"}}

\* backend is the session the identity backend holds, listeners the
\* callbacks registered with it, restoring whether a getSession call of the
\* mounted context is pending; subscribes and unsubscribes count the calls
\* of onAuthStateChange and of subscription.unsubscribe
Remote_unmounted ==
    [mounted |-> FALSE, user |-> {}, session |-> {}, loading |-> TRUE,
     restoring |-> FALSE, backend |-> {}, listeners |-> 0,
     subscribes |-> 0, unsubscribes |-> 0]

\* the mount effect: getSession is started and the callback is registered
Remote_mountEffect(r) ==
    [r EXCEPT !.mounted = TRUE, !.user = {}, !.session = {},
              !.loading = TRUE, !.restoring = TRUE,
              !.listeners = @ + 1, !.subscribes = @ + 1]

\* what getSession().then and the change callback do with a session
Remote_setSession(r, s) ==
    [r EXCEPT !.session = s, !.user = {x.user : x \in s},
              !.loading = FALSE]

\* variant: the cleanup of the mount effect keeps the subscription
Remote_cleanup_keepsSubscription(r) ==
    [r EXCEPT !.mounted = FALSE, !.restoring = FALSE]

\* the cleanup of the mount effect; a getSession result that arrives later
\* finds no component to update
Remote_cleanup(r) ==
    [r EXCEPT !.mounted = FALSE, !.restoring = FALSE,
              !.listeners = @ - 1, !.unsubscribes = @ + 1]

\* the backend calls every registered callback with the session
Remote_notified(r, s) ==
    IF r.listeners > 0 THEN Remote_setSession(r, s) ELSE r

\* ---- initial state: first visit, provider mounted, checkSession started ----
ProviderInit ==
    /\ users = loadFromStorage(EmptyStorage).users
    /\ currentUser = loadFromStorage(EmptyStorage).currentUser
    /\ localStorage = EmptyStorage
    /\ user = {}
    /\ session = {}
    /\ loading = TRUE
    /\ calls = <<Call("restore", "", "", FALSE)>>
    /\ last = Reloaded
    /\ issued = NoUsers
    /\ marker = {}

\* the components: the App is not mounted yet, a guard without fallback
Init ==
    /\ ProviderInit
    /\ app = App_unmounted
    /\ guard = ProtectedRoute_initial(FALSE)
    /\ modal = AuthModal_initial("signin")
    /\ hook = {}
    /\ menu = UserMenu_initial
    /\ demo = InteractiveDemo_initial
    /\ remote = Remote_unmounted

\* ---- invocations ------------------------------------------------------------
\* AuthProvider.signUp up to its await
signUp(email, password) ==
    /\ Len(calls) < MaxInFlight
    /\ loading' = TRUE
    /\ calls' = Append(calls, Call("signUp", email, password, FALSE))
    /\ last' = Invoked
    /\ UNCHANGED <<users, currentUser, localStorage, user, session,
                   issued, marker>>

\* AuthProvider.signIn up to its await
signIn(email, password) ==
    /\ Len(calls) < MaxInFlight
    /\ loading' = TRUE
    /\ calls' = Append(MarkRaced(email),
                       Call("signIn", email, password, Raced(email)))
    /\ last' = Invoked
    /\ UNCHANGED <<users, currentUser, localStorage, user, session,
                   issued, marker>>

\* variant: the provider removes the active-session item itself, before
\* it calls the service
signOut_clearsItem ==
    /\ Len(calls) < MaxInFlight
    /\ calls' = Append(calls, Call("signOut", "", "", FALSE))
    /\ last' = Invoked
    /\ localStorage' = [localStorage EXCEPT !.formatflex_current_user = {}]
    /\ UNCHANGED <<users, currentUser, user, session, loading,
                   issued, marker>>

\* AuthProvider.signOut up to its await
signOut ==
    /\ Len(calls) < MaxInFlight
    /\ calls' = Append(calls, Call("signOut", "", "", FALSE))
    /\ last' = Invoked
    /\ UNCHANGED <<users, currentUser, localStorage, user, session, loading,
                   issued, marker>>

\* ---- settlements: the service timer fires and the provider continues --------
ServiceBecomes(r) ==
    /\ users' = r.users
    /\ currentUser' = r.currentUser
    /\ localStorage' = r.localStorage

ContextBecomes(c) ==
    /\ user' = c.user
    /\ session' = c.session

checkSessionSettles(i) ==
    /\ calls[i].op = "restore"
    /\ CanSettle(i)
    /\ LET found == MockAuth_getCurrentUser(currentUser)
       IN  /\ ContextBecomes(
                  AuthProvider_applyRestore(user, session, found, FALSE))
           /\ last' = Event("settle", calls[i], "", found)
    /\ loading' = AuthProvider_restoreLoading(loading, FALSE)
    /\ calls' = RemoveAt(calls, i)
    /\ UNCHANGED <<users, currentUser, localStorage, issued, marker>>

signUpSettles(i, id) ==
    /\ calls[i].op = "signUp"
    /\ CanSettle(i)
    /\ users[calls[i].email] = {} => id \notin UsedIds(users)
    /\ LET c == calls[i]
           r == MockAuth_signUp(users, currentUser, localStorage,
                                c.email, c.password, id, Now(users))
       IN  /\ ServiceBecomes(r)
           /\ ContextBecomes(AuthProvider_applyResult(user, session, r))
           /\ last' = Event("settle", c, r.error, r.user)
           /\ issued' = IF r.error = ""
                        THEN [issued EXCEPT ![c.email] =
                                {[id |-> u.id, password |-> c.password] :
                                    u \in r.user}]
                        ELSE issued
           /\ marker' = IF r.error = "" THEN r.user ELSE marker
           /\ loading' = AuthProvider_callLoading(loading, r)
    /\ calls' = RemoveAt(calls, i)

signInSettles(i) ==
    /\ calls[i].op = "signIn"
    /\ CanSettle(i)
    /\ LET c == calls[i]
           r == MockAuth_signIn(users, currentUser, localStorage,
                                c.email, c.password)
       IN  /\ ServiceBecomes(r)
           /\ ContextBecomes(AuthProvider_applyResult(user, session, r))
           /\ last' = Event("settle", c, r.error, r.user)
           /\ marker' = IF r.error = "" THEN r.user ELSE marker
           /\ loading' = AuthProvider_callLoading(loading, r)
    /\ calls' = RemoveAt(calls, i)
    /\ UNCHANGED issued

signOutSettles(i) ==
    /\ calls[i].op = "signOut"
    /\ CanSettle(i)
    /\ LET r == MockAuth_signOut(users, currentUser, localStorage)
       IN  /\ ServiceBecomes(r)
           /\ ContextBecomes(AuthProvider_applySignOut(user, session, FALSE))
           /\ last' = Event("settle", calls[i], "", {})
    /\ marker' = {}
    /\ calls' = RemoveAt(calls, i)
    /\ UNCHANGED <<loading, issued>>

\* the page is reloaded: the module is evaluated again, the service is
\* constructed from storage, the provider mounts and starts checkSession;
\* timers of the old page never fire
Reload ==
    /\ users' = loadFromStorage(localStorage).users
    /\ currentUser' = loadFromStorage(localStorage).currentUser
    /\ user' = {}
    /\ session' = {}
    /\ loading' = TRUE
    /\ calls' = <<Call("restore", "", "", FALSE)>>
    /\ last' = Reloaded
    /\ UNCHANGED <<localStorage, issued, marker>>

\* ---- rejections: the awaited service call throws --------------------------
\* getCurrentUser rejects: checkSession logs it and runs its finally block
checkSessionRejects(i) ==
    /\ calls[i].op = "restore"
    /\ CanSettle(i)
    /\ ContextBecomes(AuthProvider_applyRestore(user, session, {}, TRUE))
    /\ last' = Event("settle", calls[i], "rejected", {})
    /\ loading' = AuthProvider_restoreLoading(loading, TRUE)
    /\ calls' = RemoveAt(calls, i)
    /\ UNCHANGED <<users, currentUser, localStorage, issued, marker>>

\* MockAuthService.signOut throws in localStorage.removeItem, after it has
\* cleared currentUser; AuthProvider.signOut only logs the error
signOutRejects(i) ==
    /\ calls[i].op = "signOut"
    /\ CanSettle(i)
    /\ currentUser' = {}
    /\ ContextBecomes(AuthProvider_applySignOut(user, session, TRUE))
    /\ last' = Event("settle", calls[i], "rejected", {})
    /\ calls' = RemoveAt(calls, i)
    /\ UNCHANGED <<users, localStorage, loading, issued, marker>>

\* MockAuthService.signUp throws: AuthProvider.signUp catches the exception
signUpRejects(i, m) ==
    /\ calls[i].op = "signUp"
    /\ CanSettle(i)
    /\ ContextBecomes(AuthProvider_applyThrown(user, session))
    /\ last' = Thrown(calls[i], m)
    /\ loading' = AuthProvider_callLoading(loading, [error |-> "rejected"])
    /\ calls' = RemoveAt(calls, i)
    /\ UNCHANGED <<users, currentUser, localStorage, issued, marker>>

\* MockAuthService.signIn throws: AuthProvider.signIn catches the exception
signInRejects(i, m) ==
    /\ calls[i].op = "signIn"
    /\ CanSettle(i)
    /\ ContextBecomes(AuthProvider_applyThrown(user, session))
    /\ last' = Thrown(calls[i], m)
    /\ loading' = AuthProvider_callLoading(loading, [error |-> "rejected"])
    /\ calls' = RemoveAt(calls, i)
    /\ UNCHANGED <<users, currentUser, localStorage, issued, marker>>

\* ---- the Route Guard, its AuthModal and the UserMenu over the provider -------
\* the guard renders again after a step of the provider; its AuthModal is
\* mounted in the unauthenticated state only, so a modal that was not
\* mounted before and after the step has the state of a fresh one (timers
\* that were set keep running)
Guard_follows(g, m) ==
    LET v == ProtectedRoute_render(loading', user', g.fallback)
    IN  /\ guard' = [g EXCEPT !.view = v,
                              !.wasUnauth =
                                  IF v = "loading"
                                  THEN @ ELSE v \in Unauthenticated]
        /\ modal' = IF g.view \in Unauthenticated /\ v \in Unauthenticated
                    THEN m
                    ELSE [AuthModal_initial("signin") EXCEPT
                             !.timers = m.timers]

Guard_modalOpen == guard.view \in Unauthenticated /\ guard.showAuthModal

\* the Sign In button of the built-in prompt
Guard_clickSignIn ==
    /\ guard.view = "prompt"
    /\ guard' = [guard EXCEPT !.showAuthModal = TRUE]
    /\ last' = UiEvent("clickSignIn", FALSE)
    /\ UNCHANGED <<ctx, app, modal, hook, more>>

Guard_toggleMode ==
    /\ Guard_modalOpen
    /\ modal' = AuthModal_toggleMode(modal)
    /\ last' = UiEvent("toggleMode", FALSE)
    /\ UNCHANGED <<ctx, app, guard, hook, more>>

\* the primary action of the modal: the submit calls the provider
Guard_submit(email, password) ==
    /\ Guard_modalOpen
    /\ ~Button_disabled(FALSE, modal.loading)
    /\ modal.mode = "signup" => modal.timers < MaxTimers
    /\ \/ AuthModal_method(modal.mode) = "signIn" /\ signIn(email, password)
       \/ AuthModal_method(modal.mode) = "signUp" /\ signUp(email, password)
    /\ Guard_follows([guard EXCEPT !.submitted = TRUE],
                     AuthModal_handleSubmit(modal))
    /\ UNCHANGED <<app, hook, more>>

\* the provider's call settles and the submit that awaited it continues
Guard_settled(op) ==
    LET ret == last'.ret
    IN  Guard_follows(
            [guard EXCEPT !.submitted = FALSE,
                          !.showAuthModal =
                              IF AuthModal_closesAfter(op, ret)
                              THEN FALSE ELSE @],
            AuthModal_afterSubmit(modal, op, ret))

Guard_signInSettles(i) ==
    /\ signInSettles(i)
    /\ Guard_settled("signIn")
    /\ UNCHANGED <<app, hook, more>>

Guard_signUpSettles(i, id) ==
    /\ signUpSettles(i, id)
    /\ Guard_settled("signUp")
    /\ UNCHANGED <<app, hook, more>>

\* the close button of the modal
Guard_close ==
    /\ Guard_modalOpen
    /\ modal' = AuthModal_handleClose(modal, "signin")
    /\ guard' = [guard EXCEPT !.showAuthModal = FALSE]
    /\ last' = UiEvent("close", TRUE)
    /\ UNCHANGED <<ctx, app, hook, more>>

\* the close timer of a sign-up confirmation fires
Guard_closeTimer ==
    /\ modal.timers > 0
    /\ modal' = [AuthModal_handleClose(modal, "signin") EXCEPT
                    !.timers = @ - 1]
    /\ guard' = [guard EXCEPT !.showAuthModal = FALSE]
    /\ last' = UiEvent("closeTimer", TRUE)
    /\ UNCHANGED <<ctx, app, hook, more>>

Guard_checkSessionSettles(i) ==
    /\ checkSessionSettles(i)
    /\ Guard_follows(guard, modal)
    /\ UNCHANGED <<app, hook, more>>

\* the Sign Out entry of the UserMenu, which renders for a signed-in user
UserMenu_handleSignOut ==
    /\ user # {}
    /\ signOut
    /\ Guard_follows(guard, modal)
    /\ UNCHANGED <<app, hook, more>>

Guard_signOutSettles(i) ==
    /\ signOutSettles(i)
    /\ Guard_follows(guard, modal)
    /\ UNCHANGED <<app, hook, more>>

\* the page is reloaded: guard and modal mount again
Guard_reload ==
    /\ Reload
    /\ guard' = [ProtectedRoute_initial(guard.fallback) EXCEPT
                    !.wasUnauth = guard.wasUnauth]
    /\ modal' = AuthModal_initial("signin")
    /\ UNCHANGED <<app, hook, more>>

\* ---- the AuthModal of a mounted App over a stubbed session context ----------
\* the ways the promise of a stubbed signIn/signUp settles: it resolves with
\* no error or with an error message, or it rejects
StubMessages == {"Invalid credentials", "Email already in use"}

StubReturns ==
    {[rejected |-> FALSE, error |-> {}], [rejected |-> TRUE, error |-> {}]}
        \cup {[rejected |-> FALSE, error |-> {m}] : m \in StubMessages}

\* the App opens its modal in mode m
Modal_open(m) ==
    /\ app' = App_handleOpenAuth(app, m)
    /\ modal' = AuthModal_open(modal, m)
    /\ last' = UiEvent("open", FALSE)
    /\ UNCHANGED <<ctx, guard, hook, more>>

Modal_toggleMode ==
    /\ app.isAuthModalOpen
    /\ modal' = AuthModal_toggleMode(modal)
    /\ last' = UiEvent("toggleMode", FALSE)
    /\ UNCHANGED <<ctx, app, guard, hook, more>>

\* the primary action: the submit calls the stub, which holds no state
Modal_submit(email, password) ==
    /\ app.isAuthModalOpen
    /\ ~Button_disabled(FALSE, modal.loading)
    /\ Len(calls) < MaxInFlight
    /\ modal.mode = "signup" => modal.timers < MaxTimers
    /\ modal' = AuthModal_handleSubmit(modal)
    /\ calls' = Append(calls, Call(AuthModal_method(modal.mode),
                                   email, password, FALSE))
    /\ last' = UiEvent("submit", FALSE)
    /\ UNCHANGED <<users, currentUser, localStorage, user, session, loading,
                   issued, marker, app, guard, hook, more>>

\* the stub's promise settles with ret and the submit continues
Modal_settles(i, ret) ==
    LET c == calls[i]
        closes == AuthModal_closesAfter(c.op, ret)
        after == AuthModal_afterSubmit(modal, c.op, ret)
    IN  /\ modal' = IF closes
                    THEN AuthModal_handleClose(after, "signin")
                    ELSE after
        /\ app' = IF closes THEN App_closeAuthModal(app) ELSE app
        /\ last' = [Event("settle", c, "", {}) EXCEPT
                       !.ret = ret, !.onClose = closes]
        /\ calls' = RemoveAt(calls, i)
        /\ UNCHANGED <<users, currentUser, localStorage, user, session,
                       loading, issued, marker, guard, hook, more>>

\* the close button
Modal_close ==
    /\ app.isAuthModalOpen
    /\ modal' = AuthModal_handleClose(modal, "signin")
    /\ app' = App_closeAuthModal(app)
    /\ last' = UiEvent("close", TRUE)
    /\ UNCHANGED <<ctx, guard, hook, more>>

\* the close timer of a sign-up confirmation fires
Modal_closeTimer ==
    /\ modal.timers > 0
    /\ modal' = [AuthModal_handleClose(modal, "signin") EXCEPT
                    !.timers = @ - 1]
    /\ app' = App_closeAuthModal(app)
    /\ last' = UiEvent("closeTimer", TRUE)
    /\ UNCHANGED <<ctx, guard, hook, more>>

\* ---- the App, its AuthModal and the UserMenu over the provider --------------
\* the root mounts: its effect registers the openAuth listener
App_mount ==
    /\ ~app.mounted
    /\ app' = App_initial
    /\ modal' = AuthModal_initial(App_initial.authMode)
    /\ last' = UiEvent("mount", FALSE)
    /\ UNCHANGED <<ctx, guard, hook, more>>

\* the root unmounts, while no submit of its modal is pending; timers of
\* the unmounted modal update no state any more
App_unmount ==
    /\ app.mounted
    /\ ~\E j \in 1..Len(calls) : calls[j].op \in {"signUp", "signIn"}
    /\ app' = App_cleanup(app)
    /\ modal' = AuthModal_initial(App_unmounted.authMode)
    /\ last' = UiEvent("unmount", FALSE)
    /\ UNCHANGED <<ctx, guard, hook, more>>

\* some component dispatches openAuth on the window
Window_openAuth(m) ==
    /\ app' = App_handleOpenAuth(app, m)
    /\ modal' = IF app.mounted /\ app.listening
                THEN AuthModal_open(modal, m)
                ELSE modal
    /\ last' = Dispatched(m)
    /\ UNCHANGED <<ctx, guard, hook, more>>

\* the Get Started button of the navigation, rendered for a visitor
App_clickGetStarted ==
    /\ app.mounted
    /\ user = {}
    /\ app' = App_openSignup(app)
    /\ modal' = AuthModal_open(modal, "signup")
    /\ last' = UiEvent("getStarted", FALSE)
    /\ UNCHANGED <<ctx, guard, hook, more>>

\* a Start Free Trial button, rendered for a visitor
App_clickStartFreeTrial ==
    /\ app.mounted
    /\ user = {}
    /\ app' = App_openSignup(app)
    /\ modal' = AuthModal_open(modal, "signup")
    /\ last' = UiEvent("startFreeTrial", FALSE)
    /\ UNCHANGED <<ctx, guard, hook, more>>

App_toggleMode ==
    /\ app.isAuthModalOpen
    /\ modal' = AuthModal_toggleMode(modal)
    /\ last' = UiEvent("toggleMode", FALSE)
    /\ UNCHANGED <<ctx, app, guard, hook, more>>

\* the primary action of the modal: the submit calls the provider
App_submit(email, password) ==
    /\ app.isAuthModalOpen
    /\ ~Button_disabled(FALSE, modal.loading)
    /\ modal.mode = "signup" => modal.timers < MaxTimers
    /\ \/ AuthModal_method(modal.mode) = "signIn" /\ signIn(email, password)
       \/ AuthModal_method(modal.mode) = "signUp" /\ signUp(email, password)
    /\ modal' = AuthModal_handleSubmit(modal)
    /\ UNCHANGED <<app, guard, hook, more>>

\* the provider's call settles and the submit that awaited it continues
App_settled(op) ==
    LET ret == last'.ret
        closes == AuthModal_closesAfter(op, ret)
        after == AuthModal_afterSubmit(modal, op, ret)
    IN  /\ modal' = IF closes
                    THEN AuthModal_handleClose(after, "signin")
                    ELSE after
        /\ app' = IF closes THEN App_closeAuthModal(app) ELSE app

App_signInSettles(i) ==
    /\ signInSettles(i)
    /\ App_settled("signIn")
    /\ UNCHANGED <<guard, hook, more>>

App_signUpSettles(i, id) ==
    /\ signUpSettles(i, id)
    /\ App_settled("signUp")
    /\ UNCHANGED <<guard, hook, more>>

\* the close button of the modal
App_close ==
    /\ app.isAuthModalOpen
    /\ modal' = AuthModal_handleClose(modal, "signin")
    /\ app' = App_closeAuthModal(app)
    /\ last' = UiEvent("close", TRUE)
    /\ UNCHANGED <<ctx, guard, hook, more>>

\* the close timer of a sign-up confirmation fires
App_closeTimer ==
    /\ modal.timers > 0
    /\ modal' = [AuthModal_handleClose(modal, "signin") EXCEPT
                    !.timers = @ - 1]
    /\ app' = App_closeAuthModal(app)
    /\ last' = UiEvent("closeTimer", TRUE)
    /\ UNCHANGED <<ctx, guard, hook, more>>

\* the Sign Out entry of the UserMenu, which renders for a signed-in user
App_handleSignOut ==
    /\ app.mounted
    /\ user # {}
    /\ signOut
    /\ UNCHANGED ui

\* ---- a consumer of the session context --------------------------------------
\* a component calls useAuth while it renders, below the provider (inside)
\* or not; hook records where it rendered and what the call did
Consumer_render(inside) ==
    /\ hook' = {[inside |-> inside,
                 result |-> useAuth(IF inside THEN {AuthContextValue}
                                              ELSE {})]}
    /\ last' = UiEvent("useAuth", FALSE)
    /\ UNCHANGED <<ctx, app, guard, modal, more>>

\* ---- the UserMenu of a page over the provider -------------------------------
Menu_rendered == menu.mounted /\ UserMenu_render(user, menu.isOpen) # "nothing"

Menu_toggle ==
    /\ Menu_rendered
    /\ menu' = UserMenu_toggle(menu)
    /\ last' = UiEvent("menuToggle", FALSE)
    /\ UNCHANGED <<ctx, app, guard, modal, hook, demo, remote>>

\* a mousedown anywhere in the document, inside the menu or not
Menu_mousedown(inside) ==
    /\ menu.mounted
    /\ inside => Menu_rendered
    /\ menu' = UserMenu_handleClickOutside(menu, Menu_rendered, inside)
    /\ last' = [UiEvent("mousedown", FALSE) EXCEPT
                   !.mode = IF inside THEN "inside" ELSE "outside"]
    /\ UNCHANGED <<ctx, app, guard, modal, hook, demo, remote>>

\* the Sign Out entry of the dropdown: handleSignOut up to its await
Menu_clickSignOut ==
    /\ menu.mounted
    /\ UserMenu_render(user, menu.isOpen) = "dropdown"
    /\ signOut
    /\ menu' = [menu EXCEPT !.awaiting = @ + 1]
    /\ UNCHANGED <<app, guard, modal, hook, demo, remote>>

\* signOut settles and the handleSignOut that awaited it continues; the
\* calls of unmounted menus were started first and settle first
Menu_signOutSettles(i) ==
    /\ signOutSettles(i)
    /\ menu' = IF menu.stale > 0 THEN [menu EXCEPT !.stale = @ - 1]
               ELSE UserMenu_afterSignOut(menu)
    /\ UNCHANGED <<app, guard, modal, hook, demo, remote>>

Menu_mount ==
    /\ ~menu.mounted
    /\ menu' = [UserMenu_initial EXCEPT !.stale = menu.stale]
    /\ last' = UiEvent("menuMount", FALSE)
    /\ UNCHANGED <<ctx, app, guard, modal, hook, demo, remote>>

Menu_unmount ==
    /\ menu.mounted
    /\ menu' = UserMenu_unmounted(menu)
    /\ last' = UiEvent("menuUnmount", FALSE)
    /\ UNCHANGED <<ctx, app, guard, modal, hook, demo, remote>>

\* the timer of the oldest pending call fires
Menu_settleHead ==
    /\ Len(calls) > 0
    /\ \/ checkSessionSettles(1) /\ UNCHANGED ui
       \/ \E id \in Ids : signUpSettles(1, id) /\ UNCHANGED ui
       \/ signInSettles(1) /\ UNCHANGED ui
       \/ Menu_signOutSettles(1)

\* ---- the InteractiveDemo of a page over the provider -------------------------
\* the button below the raw manuscript
Demo_clickStart ==
    /\ InteractiveDemo_startButton(demo)
    /\ demo.starts < MaxStarts
    /\ demo' = InteractiveDemo_handleDemo(demo, user)
    /\ last' = UiEvent("demoStart", FALSE)
    /\ UNCHANGED <<ctx, app, guard, modal, hook, menu, remote>>

Demo_firstTimer ==
    /\ demo.timer1 > 0
    /\ demo' = InteractiveDemo_firstTimer(demo)
    /\ last' = UiEvent("demoTimer1", FALSE)
    /\ UNCHANGED <<ctx, app, guard, modal, hook, menu, remote>>

Demo_secondTimer ==
    /\ demo.timer2 > 0
    /\ demo' = InteractiveDemo_secondTimer(demo)
    /\ last' = UiEvent("demoTimer2", FALSE)
    /\ UNCHANGED <<ctx, app, guard, modal, hook, menu, remote>>

\* Download Full Sample
Demo_clickDownload ==
    /\ InteractiveDemo_downloadButton(demo)
    /\ demo' = InteractiveDemo_handleDownload(demo, user)
    /\ last' = UiEvent("demoDownload", FALSE)
    /\ UNCHANGED <<ctx, app, guard, modal, hook, menu, remote>>

Demo_promptCancel ==
    /\ InteractiveDemo_authPrompt(demo)
    /\ demo' = InteractiveDemo_closePrompt(demo)
    /\ last' = UiEvent("promptCancel", FALSE)
    /\ UNCHANGED <<ctx, app, guard, modal, hook, menu, remote>>

\* Sign Up Free: the prompt closes and openAuth is dispatched on the
\* window, where the listener of a mounted App handles it
Demo_promptSignUp ==
    /\ InteractiveDemo_authPrompt(demo)
    /\ demo' = InteractiveDemo_closePrompt(demo)
    /\ app' = App_handleOpenAuth(app, "signup")
    /\ modal' = IF app.mounted /\ app.listening
                THEN AuthModal_open(modal, "signup")
                ELSE modal
    /\ last' = Dispatched("signup")
    /\ UNCHANGED <<ctx, guard, hook, menu, remote>>

\* Cancel and Download Sample of the download dialog
Demo_dialogClose(ev) ==
    /\ InteractiveDemo_downloadDialog(demo, user)
    /\ demo' = InteractiveDemo_closeDialog(demo)
    /\ last' = UiEvent(ev, FALSE)
    /\ UNCHANGED <<ctx, app, guard, modal, hook, menu, remote>>

\* ---- the session context over the external identity backend -----------------
Remote_mount ==
    /\ ~remote.mounted
    /\ remote.subscribes < MaxMounts
    /\ remote' = Remote_mountEffect(remote)
    /\ last' = UiEvent("remoteMount", FALSE)
    /\ UNCHANGED <<ctx, app, guard, modal, hook, menu, demo>>

Remote_unmount ==
    /\ remote.mounted
    /\ remote' = Remote_cleanup(remote)
    /\ last' = UiEvent("remoteUnmount", FALSE)
    /\ UNCHANGED <<ctx, app, guard, modal, hook, menu, demo>>

\* the getSession call of the mounted context resolves with the session the
\* backend holds
Remote_getSessionSettles ==
    /\ remote.restoring
    /\ remote' = [Remote_setSession(remote, remote.backend) EXCEPT
                     !.restoring = FALSE]
    /\ last' = UiEvent("getSession", FALSE)
    /\ UNCHANGED <<ctx, app, guard, modal, hook, menu, demo>>

\* the session of the backend changes (a sign-in, a sign-out, a refresh in
\* any tab) and the backend notifies its listeners
Backend_changes(s) ==
    /\ s # remote.backend
    /\ remote' = Remote_notified([remote EXCEPT !.backend = s], s)
    /\ last' = UiEvent("notify", FALSE)
    /\ UNCHANGED <<ctx, app, guard, modal, hook, menu, demo>>

\* ---- specifications ---------------------------------------------------------
Settle ==
    \/ \E i \in 1..Len(calls) : checkSessionSettles(i) /\ UNCHANGED ui
    \/ \E i \in 1..Len(calls), id \in Ids : signUpSettles(i, id) /\ UNCHANGED ui
    \/ \E i \in 1..Len(calls) : signInSettles(i) /\ UNCHANGED ui
    \/ \E i \in 1..Len(calls) : signOutSettles(i) /\ UNCHANGED ui

\* the provider over the mock service, across page reloads
Next ==
    \/ \E e \in Emails, p \in Passwords : signUp(e, p) /\ UNCHANGED ui
    \/ \E e \in Emails, p \in Passwords : signIn(e, p) /\ UNCHANGED ui
    \/ signOut /\ UNCHANGED ui
    \/ \E i \in 1..Len(calls) : checkSessionSettles(i) /\ UNCHANGED ui
    \/ \E i \in 1..Len(calls), id \in Ids : signUpSettles(i, id) /\ UNCHANGED ui
    \/ \E i \in 1..Len(calls) : signInSettles(i) /\ UNCHANGED ui
    \/ \E i \in 1..Len(calls) : signOutSettles(i) /\ UNCHANGED ui
    \/ Reload /\ UNCHANGED ui

Spec == Init /\ [][Next]_vars

\* the same, over a service whose getCurrentUser and signOut may reject
NextFault ==
    \/ \E e \in Emails, p \in Passwords : signUp(e, p) /\ UNCHANGED ui
    \/ \E e \in Emails, p \in Passwords : signIn(e, p) /\ UNCHANGED ui
    \/ signOut /\ UNCHANGED ui
    \/ \E i \in 1..Len(calls) : checkSessionSettles(i) /\ UNCHANGED ui
    \/ \E i \in 1..Len(calls), id \in Ids : signUpSettles(i, id) /\ UNCHANGED ui
    \/ \E i \in 1..Len(calls) : signInSettles(i) /\ UNCHANGED ui
    \/ \E i \in 1..Len(calls) : signOutSettles(i) /\ UNCHANGED ui
    \/ \E i \in 1..Len(calls) : checkSessionRejects(i) /\ UNCHANGED ui
    \/ \E i \in 1..Len(calls) : signOutRejects(i) /\ UNCHANGED ui
    \/ Reload /\ UNCHANGED ui

FaultSpec == Init /\ [][NextFault]_vars

\* mounting: one visitor who signs up, signs out and reloads; the timer of a
\* pending getCurrentUser call always fires
RestoreEnds ==
    \/ \E i \in 1..Len(calls) : checkSessionSettles(i) /\ UNCHANGED ui
    \/ \E i \in 1..Len(calls) : checkSessionRejects(i) /\ UNCHANGED ui

NextMount ==
    \/ \E p \in Passwords : signUp("alice@example.com", p) /\ UNCHANGED ui
    \/ signOut /\ UNCHANGED ui
    \/ \E i \in 1..Len(calls) : checkSessionSettles(i) /\ UNCHANGED ui
    \/ \E i \in 1..Len(calls) : checkSessionRejects(i) /\ UNCHANGED ui
    \/ \E i \in 1..Len(calls), id \in Ids : signUpSettles(i, id) /\ UNCHANGED ui
    \/ \E i \in 1..Len(calls) : signOutSettles(i) /\ UNCHANGED ui
    \/ Reload /\ UNCHANGED ui

MountSpec == Init /\ [][NextMount]_vars /\ WF_vars(RestoreEnds)

\* one page visit with correct passwords only; every timer fires
NextRace ==
    \/ \E e \in Emails : signUp(e, "supersecret") /\ UNCHANGED ui
    \/ \E e \in Emails : signIn(e, "supersecret") /\ UNCHANGED ui
    \/ \E i \in 1..Len(calls) : checkSessionSettles(i) /\ UNCHANGED ui
    \/ \E i \in 1..Len(calls), id \in Ids : signUpSettles(i, id) /\ UNCHANGED ui
    \/ \E i \in 1..Len(calls) : signInSettles(i) /\ UNCHANGED ui

RaceSpec == Init /\ [][NextRace]_vars /\ WF_vars(Settle)

\* one page visit over a service whose signUp and signIn may throw
NextThrow ==
    \/ \E e \in Emails, p \in Passwords : signUp(e, p) /\ UNCHANGED ui
    \/ \E e \in Emails, p \in Passwords : signIn(e, p) /\ UNCHANGED ui
    \/ \E i \in 1..Len(calls) : checkSessionSettles(i) /\ UNCHANGED ui
    \/ \E i \in 1..Len(calls), id \in Ids : signUpSettles(i, id) /\ UNCHANGED ui
    \/ \E i \in 1..Len(calls) : signInSettles(i) /\ UNCHANGED ui
    \/ \E i \in 1..Len(calls), m \in ThrownMessages : signUpRejects(i, m) /\ UNCHANGED ui
    \/ \E i \in 1..Len(calls), m \in ThrownMessages : signInRejects(i, m) /\ UNCHANGED ui

ThrowSpec == Init /\ [][NextThrow]_vars

\* a page whose protected content sits behind the guard, with or without a
\* fallback
GuardInit ==
    /\ ProviderInit
    /\ app = App_unmounted
    /\ \E fb \in BOOLEAN : guard = ProtectedRoute_initial(fb)
    /\ modal = AuthModal_initial("signin")
    /\ hook = {}
    /\ menu = UserMenu_initial
    /\ demo = InteractiveDemo_initial
    /\ remote = Remote_unmounted

NextGuard ==
    \/ Guard_clickSignIn
    \/ Guard_toggleMode
    \/ \E e \in Emails, p \in Passwords : Guard_submit(e, p)
    \/ \E i \in 1..Len(calls) : Guard_signInSettles(i)
    \/ \E i \in 1..Len(calls), id \in Ids : Guard_signUpSettles(i, id)
    \/ Guard_close
    \/ Guard_closeTimer
    \/ \E i \in 1..Len(calls) : Guard_checkSessionSettles(i)
    \/ UserMenu_handleSignOut
    \/ \E i \in 1..Len(calls) : Guard_signOutSettles(i)
    \/ Guard_reload

GuardSpec == GuardInit /\ [][NextGuard]_vars

\* the modal of a mounted App over a stubbed session context; a timer that
\* was set fires
ModalInit ==
    /\ users = NoUsers
    /\ currentUser = {}
    /\ localStorage = EmptyStorage
    /\ user = {}
    /\ session = {}
    /\ loading = FALSE
    /\ calls = <<>>
    /\ last = Reloaded
    /\ issued = NoUsers
    /\ marker = {}
    /\ app = App_initial
    /\ guard = ProtectedRoute_initial(FALSE)
    /\ modal = AuthModal_initial("signin")
    /\ hook = {}
    /\ menu = UserMenu_initial
    /\ demo = InteractiveDemo_initial
    /\ remote = Remote_unmounted

NextModal ==
    \/ \E m \in Modes : Modal_open(m)
    \/ Modal_toggleMode
    \/ \E e \in Emails, p \in Passwords : Modal_submit(e, p)
    \/ \E i \in 1..Len(calls), ret \in StubReturns : Modal_settles(i, ret)
    \/ Modal_close
    \/ Modal_closeTimer

ModalSpec == ModalInit /\ [][NextModal]_vars /\ WF_vars(Modal_closeTimer)

\* the root of the page: it mounts and unmounts under a provider that
\* stays, one visitor uses its modal and its user menu, and any component
\* may dispatch openAuth at any time
NextApp ==
    \/ App_mount
    \/ App_unmount
    \/ \E m \in Modes : Window_openAuth(m)
    \/ App_clickGetStarted
    \/ App_clickStartFreeTrial
    \/ App_toggleMode
    \/ \E p \in Passwords : App_submit("alice@example.com", p)
    \/ \E i \in 1..Len(calls) : App_signInSettles(i)
    \/ \E i \in 1..Len(calls), id \in Ids : App_signUpSettles(i, id)
    \/ App_close
    \/ App_closeTimer
    \/ App_handleSignOut
    \/ \E i \in 1..Len(calls) : checkSessionSettles(i) /\ UNCHANGED ui
    \/ \E i \in 1..Len(calls) : signOutSettles(i) /\ UNCHANGED ui

AppSpec == Init /\ [][NextApp]_vars

\* one visitor drives the provider while components below it and outside
\* of it render
NextHook ==
    \/ \E p \in Passwords : signUp("alice@example.com", p) /\ UNCHANGED ui
    \/ \E p \in Passwords : signIn("alice@example.com", p) /\ UNCHANGED ui
    \/ signOut /\ UNCHANGED ui
    \/ \E i \in 1..Len(calls) : checkSessionSettles(i) /\ UNCHANGED ui
    \/ \E i \in 1..Len(calls), id \in Ids : signUpSettles(i, id) /\ UNCHANGED ui
    \/ \E i \in 1..Len(calls) : signInSettles(i) /\ UNCHANGED ui
    \/ \E i \in 1..Len(calls) : signOutSettles(i) /\ UNCHANGED ui
    \/ \E inside \in BOOLEAN : Consumer_render(inside)

HookSpec == Init /\ [][NextHook]_vars

\* the session context over the external identity backend mounts and
\* unmounts while the session of the backend changes
NextRemote ==
    \/ Remote_mount
    \/ Remote_unmount
    \/ Remote_getSessionSettles
    \/ \E s \in {{}} \cup {{x} : x \in RemoteSessions} : Backend_changes(s)

RemoteSpec == Init /\ [][NextRemote]_vars

\* one page visit of one visitor: sign-up and sign-in through some form,
\* sign-out through the UserMenu, which mounts and unmounts; every timer
\* fires
NextMenu ==
    \/ \E p \in Passwords : signUp("alice@example.com", p) /\ UNCHANGED ui
    \/ \E p \in Passwords : signIn("alice@example.com", p) /\ UNCHANGED ui
    \/ \E i \in 1..Len(calls) : checkSessionSettles(i) /\ UNCHANGED ui
    \/ \E i \in 1..Len(calls), id \in Ids : signUpSettles(i, id) /\ UNCHANGED ui
    \/ \E i \in 1..Len(calls) : signInSettles(i) /\ UNCHANGED ui
    \/ Menu_toggle
    \/ \E inside \in BOOLEAN : Menu_mousedown(inside)
    \/ Menu_clickSignOut
    \/ \E i \in 1..Len(calls) : Menu_signOutSettles(i)
    \/ Menu_mount
    \/ Menu_unmount

MenuSpec == Init /\ [][NextMenu]_vars /\ WF_vars(Menu_settleHead)

\* one page visit of one visitor who uses the demo and signs up, in and
\* out in between; the App mounts at some time; the timers of the demo fire
NextDemo ==
    \/ signUp("alice@example.com", "supersecret") /\ UNCHANGED ui
    \/ signIn("alice@example.com", "supersecret") /\ UNCHANGED ui
    \/ signOut /\ UNCHANGED ui
    \/ \E i \in 1..Len(calls) : checkSessionSettles(i) /\ UNCHANGED ui
    \/ \E i \in 1..Len(calls), id \in Ids : signUpSettles(i, id) /\ UNCHANGED ui
    \/ \E i \in 1..Len(calls) : signInSettles(i) /\ UNCHANGED ui
    \/ \E i \in 1..Len(calls) : signOutSettles(i) /\ UNCHANGED ui
    \/ App_mount
    \/ App_close
    \/ Demo_clickStart
    \/ Demo_firstTimer
    \/ Demo_secondTimer
    \/ Demo_clickDownload
    \/ Demo_promptCancel
    \/ Demo_promptSignUp
    \/ \E ev \in {"dialogCancel", "dialogDownload"} : Demo_dialogClose(ev)

DemoSpec ==
    /\ Init
    /\ [][NextDemo]_vars
    /\ WF_vars(Demo_firstTimer)
    /\ WF_vars(Demo_secondTimer)

\* ---- properties -------------------------------------------------------------
Settled(op) == last.ev = "settle" /\ last.op = op

SettledAuth == Settled("signUp") \/ Settled("signIn")

\* what a successful signUp of the last step's email returned, if any did
IssuedForLast == IF last.email \in Emails THEN issued[last.email] ELSE {}

InFlight(ops) == \E j \in 1..Len(calls) : calls[j].op \in ops

\* C1: a signUp of an email that no earlier signUp registered succeeds, and
\* every later signIn with that email and the password given at signUp
\* succeeds and returns the id that signUp returned, whatever sign-outs,
\* failed sign-ins, other sign-ups and reloads happened in between.
C1_SignUpThenSignIn ==
    /\ (Settled("signUp") /\ last.error # "")
          => IssuedForLast # {}
    /\ (Settled("signUp") /\ last.error = "")
          => /\ last.ruser # {}
             /\ \A u \in last.ruser : u.email = last.email
    /\ \A a \in IssuedForLast :
          (Settled("signIn") /\ a.password = last.password)
             => /\ last.error = ""
                /\ last.ruser # {}
                /\ \A u \in last.ruser : u.id = a.id /\ u.email = last.email

\* C1 witness: a signIn with the sign-up password succeeded and returned the
\* sign-up's id, after another account had been signed in in between.
C1_Witness ==
    /\ Settled("signIn")
    /\ last.error = ""
    /\ \E a \in IssuedForLast :
          a.password = last.password /\ a.id \in {u.id : u \in last.ruser}
    /\ \E u \in last.pre.user : u.email # last.email

\* C2: a signUp of a registered email returns DuplicateAccount as a result
\* and changes nothing in the service or the store: the accounts (password,
\* id and creation time of each), the persisted keys and the active user.
C2_DuplicateSignUp ==
    [][(last'.ev = "settle" /\ last'.op = "signUp"
            /\ users[last'.email] # {})
          => /\ last'.error = "DuplicateAccount"
             /\ last'.ruser = {}
             /\ users' = users
             /\ localStorage' = localStorage
             /\ currentUser' = currentUser]_vars

\* C2 witness: a signUp of a registered email, with another password than
\* the stored one, was refused.
C2_Witness ==
    /\ Settled("signUp")
    /\ last.error = "DuplicateAccount"
    /\ \E r \in users[last.email] : r.password # last.password

\* C3: a signIn with an unregistered email or a password other than the
\* stored one returns InvalidCredentials, and leaves the service's active
\* user (in memory and persisted) and the provider's user and session alone.
C3_InvalidSignIn ==
    [][(last'.ev = "settle" /\ last'.op = "signIn"
            /\ \A r \in users[last'.email] : r.password # last'.password)
          => /\ last'.error = "InvalidCredentials"
             /\ currentUser' = currentUser
             /\ localStorage'.formatflex_current_user =
                   localStorage.formatflex_current_user
             /\ user' = user
             /\ session' = session]_vars

\* C3 witness: a signIn with a wrong password for a registered email failed
\* while somebody was signed in, who still is.
C3_Witness ==
    /\ Settled("signIn")
    /\ last.error = "InvalidCredentials"
    /\ users[last.email] # {}
    /\ user # {}
    /\ currentUser = user

\* C4 as stated: after a successful signUp/signIn loading is false and user
\* and session are those of the account; after a failed one loading is
\* false and user and session are what they were when the call was made.
C4_Original ==
    SettledAuth =>
        /\ ~loading
        /\ IF last.error = ""
           THEN /\ user # {} /\ session # {}
                /\ \A u \in user : u.email = last.email
           ELSE /\ user = last.pre.user
                /\ session = last.pre.session

\* C4 amended: the step in which a signUp/signIn settles leaves loading
\* false; on success user and session are set to the returned account, on
\* an error user and session keep the values they had just before the call
\* settled (which are the values from before the call when nothing else
\* settled in between).
C4_SettleOutcome ==
    [][(last'.ev = "settle" /\ last'.op \in {"signUp", "signIn"})
          => /\ loading' = FALSE
             /\ IF last'.error = ""
                THEN /\ user' # {} /\ session' # {}
                     /\ user' = last'.ruser
                     /\ \A u \in user' : u.email = last'.email
                     /\ \A x \in session' : x.user \in user'
                ELSE /\ user' = user
                     /\ session' = session]_vars

\* C4 witness: a signIn failed after another call had changed the user
\* while it was pending.
C4_Witness ==
    /\ SettledAuth
    /\ last.error # ""
    /\ ~loading
    /\ user # last.pre.user

\* C5 as stated: loading is true whenever a signUp or signIn is pending and
\* false whenever no signUp, signIn or checkSession is pending.
C5_LoadingTracksCalls ==
    /\ InFlight({"signUp", "signIn"}) => loading
    /\ ~InFlight({"signUp", "signIn", "restore"}) => ~loading

\* C6: user is null exactly when session is null, and a session's user is
\* the provider's user.
C6_UserIffSession ==
    /\ user = {} <=> session = {}
    /\ \A x \in session : x.user \in user

\* C6 witness: a signOut is pending while a signIn has just replaced one
\* signed-in user by another.
C6_Witness ==
    /\ Settled("signIn")
    /\ user # {} /\ session # {}
    /\ last.pre.user # {}
    /\ last.pre.user # user
    /\ InFlight({"signOut"})

RacePending ==
    \E j \in 1..Len(calls) : calls[j].op = "signIn" /\ calls[j].raced

RacingFor(e) ==
    \E j \in 1..Len(calls) :
        calls[j].op = "signIn" /\ calls[j].raced /\ calls[j].email = e

\* C7: each of the signIn calls for different accounts that were pending
\* together settles, and when the last of them settles, for a valid
\* account, the user is that account.
C7_LastSettledWins ==
    /\ [](\A a \in IssuedForLast :
            (Settled("signIn") /\ last.raced /\ ~RacePending
                /\ a.password = last.password)
              => /\ last.error = ""
                 /\ user # {}
                 /\ \A u \in user : u.email = last.email /\ u.id = a.id)
    /\ \A e \in Emails :
          RacingFor(e) ~>
             (Settled("signIn") /\ last.email = e /\ last.raced)

\* C7 witness: of two signIns for different valid accounts that were pending
\* together, the second to settle has set the user.
C7_Witness ==
    /\ Settled("signIn")
    /\ ~RacePending
    /\ last.raced
    /\ \A e \in Emails : issued[e] # {}
    /\ \E u \in last.pre.user : u.email = last.email
    /\ \E u \in user : u.email = last.email

\* C8 as stated: after a signOut has settled, user and session are null,
\* whether the service's signOut succeeded or rejected.
C8_SignOutClears ==
    Settled("signOut") => user = {} /\ session = {}

C10_ActiveSurvivesReload ==
    /\ MockAuth_getCurrentUser(loadFromStorage(localStorage).currentUser)
          = marker
    /\ (Settled("restore") /\ last.error = "") => last.ruser = marker

\* C10 witness: after a reload checkSession got the user who had signed in
\* before it.
C10_Witness ==
    /\ Settled("restore")
    /\ last.ruser # {}
    /\ last.ruser = marker
    /\ user = marker

\* C11: the promise of signUp/signIn never rejects. An error of the awaited
\* result is returned as the error; an exception thrown by the service call
\* is returned as an error carrying the exception's message (a fixed text
\* when it has none). On either error user and session are untouched, and
\* loading is false on every outcome.
C11_NeverRejects ==
    [][(last'.ev = "settle" /\ last'.op \in {"signUp", "signIn"})
          => /\ ~last'.ret.rejected
             /\ loading' = FALSE
             /\ (last'.thrown = {} /\ last'.error = "")
                   => last'.ret.error = {}
             /\ (last'.thrown = {} /\ last'.error # "")
                   => /\ last'.ret.error = {last'.error}
                      /\ user' = user /\ session' = session
             /\ last'.thrown # {}
                   => /\ last'.ret.error # {}
                      /\ \A m \in last'.thrown :
                            m # "" => last'.ret.error = {m}
                      /\ user' = user /\ session' = session]_vars

\* C11 witness: the service's signIn threw while somebody was signed in;
\* the call returned the exception's message, the user is still signed in.
C11_Witness ==
    /\ Settled("signIn")
    /\ last.thrown = {"Network down"}
    /\ last.ret = [rejected |-> FALSE, error |-> {"Network down"}]
    /\ user # {} /\ session # {}
    /\ ~loading

\* C12: the guard renders the children exactly when loading is false and
\* there is a user; while loading it renders the loading indicator and
\* nothing else; with loading false and no user it renders the fallback if
\* one was supplied and the sign-in prompt otherwise.
C12_GuardRenders ==
    /\ guard.view = "children" <=> (~loading /\ user # {})
    /\ loading => guard.view = "loading"
    /\ (~loading /\ user = {})
          => guard.view = IF guard.fallback THEN "fallback" ELSE "prompt"

\* C12 witness: the children are rendered after a sign-in, which was made
\* from the guard's unauthenticated view.
C12_Witness ==
    /\ guard.view = "children"
    /\ Settled("signIn")
    /\ ~loading /\ user # {}

\* C13: the guard's modal is closed when the guard mounts, opens only by a
\* click on the prompt's sign-in button, and is closed by every onClose;
\* when a sign-in submitted through it succeeds, the modal is closed and
\* the children are rendered.
C13_GuardModal ==
    /\ [](last.ev = "reload" => ~guard.showAuthModal)
    /\ [][(guard'.showAuthModal /\ ~guard.showAuthModal)
            => (last'.ev = "clickSignIn" /\ guard.view = "prompt"
                  /\ ~guard.fallback)]_vars
    /\ [][last'.onClose => ~guard'.showAuthModal]_vars
    /\ [][(last'.ev = "settle" /\ last'.op = "signIn" /\ last'.error = ""
              /\ guard.submitted)
            => (~guard'.showAuthModal /\ guard'.view = "children")]_vars

\* C13 witness: a sign-in through the modal of a guard without fallback
\* succeeded; the modal is closed and the children are rendered.
C13_Witness ==
    /\ Settled("signIn")
    /\ last.error = ""
    /\ ~guard.fallback
    /\ ~guard.showAuthModal
    /\ guard.view = "children"

\* C14 as stated: a guard whose last view was the unauthenticated one comes
\* to render the children only in the step in which a signIn submitted
\* through its modal settles successfully.
C14_Original ==
    [][(guard.wasUnauth /\ guard'.view = "children")
          => (last'.ev = "settle" /\ last'.op = "signIn"
                /\ last'.error = "" /\ guard.submitted)]_vars

\* C14 amended: a guard whose last view was the unauthenticated one comes
\* to render the children only in the step in which a signIn or a signUp
\* submitted through its modal settles successfully; no other step, a
\* page reload included, takes it there.
C14_OnlyThroughModal ==
    [][(guard.wasUnauth /\ guard'.view = "children")
          => (last'.ev = "settle" /\ last'.op \in {"signIn", "signUp"}
                /\ last'.error = "" /\ guard.submitted)]_vars

\* C14 witness: the children are rendered after a sign-up through the modal.
C14_Witness ==
    /\ guard.view = "children"
    /\ Settled("signUp")
    /\ last.error = ""
    /\ ~guard.wasUnauth

\* C15: when the call of a submit resolves with an error or rejects, the
\* submit does not call onClose, the modal is as open as it was, and the
\* message shown is the returned one for a returned error and the generic
\* one for a rejection.
C15_ErrorKeepsOpen ==
    [][(last'.ev = "settle"
            /\ (last'.ret.rejected \/ last'.ret.error # {}))
          => /\ ~last'.onClose
             /\ app' = app
             /\ modal'.error # ""
             /\ last'.ret.rejected => modal'.error = GenericError
             /\ ~last'.ret.rejected => last'.ret.error = {modal'.error}]_vars

\* C15 witness: a sign-up submit was rejected; the modal is open and shows
\* the generic message.
C15_Witness ==
    /\ Settled("signUp")
    /\ last.ret.rejected
    /\ app.isAuthModalOpen
    /\ modal.error = GenericError

\* C16: a successful sign-in submit calls onClose in the step in which it
\* settles; a successful sign-up submit shows the confirmation, sets the
\* close timer and does not call onClose; onClose is called by nothing but
\* a successful sign-in, the close button and the timer; a timer that was
\* set fires and calls onClose; while it is pending the close button of an
\* open modal works.
C16_CloseAfterSuccess ==
    /\ [][(last'.ev = "settle" /\ ~last'.ret.rejected
              /\ last'.ret.error = {})
            => IF last'.op = "signIn"
               THEN last'.onClose /\ ~app'.isAuthModalOpen
               ELSE /\ ~last'.onClose
                    /\ app' = app
                    /\ modal'.success = Confirmation
                    /\ modal'.timers = modal.timers + 1]_vars
    /\ [][last'.onClose
            => \/ last'.ev \in {"close", "closeTimer"}
               \/ last'.ev = "settle" /\ last'.op = "signIn"]_vars
    /\ [][last'.ev = "closeTimer"
            => modal.timers > 0 /\ ~app'.isAuthModalOpen]_vars
    /\ (modal.timers > 0) ~> (last.ev = "closeTimer")
    /\ []((modal.timers > 0 /\ app.isAuthModalOpen) => ENABLED Modal_close)

\* C16 witness: the confirmation of a sign-up is shown in the open modal
\* while its close timer is pending.
C16_Witness ==
    /\ Settled("signUp")
    /\ last.ret = [rejected |-> FALSE, error |-> {}]
    /\ modal.success = Confirmation
    /\ modal.timers > 0
    /\ app.isAuthModalOpen

\* C17: the primary action is loading exactly while the call of a submit is
\* pending: a submit sets it, the settlement resets it on every outcome,
\* and a loading button takes no submit, so at most one call is in flight.
C17_LoadingWhilePending ==
    /\ [](modal.loading <=> Len(calls) = 1)
    /\ [](Len(calls) <= 1)
    /\ [](Button_disabled(FALSE, modal.loading)
            => ~ENABLED (\E e \in Emails, p \in Passwords :
                           Modal_submit(e, p)))
    /\ [][last'.ev = "submit" => modal'.loading]_vars
    /\ [][last'.ev = "settle" => ~modal'.loading]_vars

\* C17 witness: a submit that was made while nothing was pending is in
\* flight and the button is loading.
C17_Witness ==
    /\ last.ev = "submit"
    /\ modal.loading
    /\ Len(calls) = 1
    /\ app.isAuthModalOpen

C20_UseAuth ==
    last.ev = "useAuth" =>
        /\ hook # {}
        /\ \A h \in hook :
              IF h.inside
              THEN /\ h.result.threw = {}
                   /\ h.result.value =
                         {[user |-> user, session |-> session,
                           loading |-> loading, signUp |-> "signUp",
                           signIn |-> "signIn", signOut |-> "signOut"]}
              ELSE /\ h.result.threw =
                         {"useAuth must be used within an AuthProvider"}
                   /\ h.result.value = {}

\* C20 witness: a component outside the provider called useAuth, while the
\* provider holds a signed-in user; the call threw and returned nothing.
C20_Witness ==
    /\ last.ev = "useAuth"
    /\ \E h \in hook : ~h.inside /\ h.result.threw # {}
                           /\ h.result.value = {}
    /\ user # {}

\* C21: the context over the external backend calls onAuthStateChange once
\* in its mount and unsubscribe once in its unmount, and in no other step;
\* a notification with a session that arrives while it is mounted sets
\* session and user from it and loading to false; a notification that
\* arrives after the unmount changes nothing of its state
C21_Subscription ==
    [][/\ remote'.subscribes =
            remote.subscribes + (IF last'.ev = "remoteMount" THEN 1 ELSE 0)
       /\ remote'.unsubscribes =
            remote.unsubscribes
                + (IF last'.ev = "remoteUnmount" THEN 1 ELSE 0)
       /\ remote'.listeners = (IF remote'.mounted THEN 1 ELSE 0)
       /\ last'.ev = "notify" /\ remote.mounted /\ remote'.backend # {}
            => /\ remote'.session = remote'.backend
               /\ remote'.user = {x.user : x \in remote'.backend}
               /\ ~remote'.loading
       /\ last'.ev = "notify" /\ ~remote.mounted
            => /\ remote'.session = remote.session
               /\ remote'.user = remote.user
               /\ remote'.loading = remote.loading]_vars

\* a notification arrived after an unmount, and one with a session arrived
\* at a context that mounted twice
C21_Witness ==
    /\ last.ev = "notify"
    /\ remote.backend # {}
    /\ remote.unsubscribes > 0
    /\ remote.subscribes > 1
    /\ remote.mounted
    /\ remote.user # {}

\* C22: a click on Sign Out adds exactly one signOut call to the pending
\* calls of the session context; when the signOut a mounted menu waits for
\* settles, its dropdown is closed; the menu renders nothing while user is
\* null; a mousedown outside of a rendered menu closes its dropdown
C22_UserMenu ==
    /\ [](user = {} => UserMenu_render(user, menu.isOpen) = "nothing")
    /\ [][/\ menu'.awaiting = menu.awaiting + 1
             => /\ Len(calls') = Len(calls) + 1
                /\ SubSeq(calls', 1, Len(calls)) = calls
                /\ calls'[Len(calls')].op = "signOut"
          /\ Settled("signOut")' /\ menu.stale = 0 /\ menu.awaiting > 0
             => ~menu'.isOpen
          /\ /\ last'.ev = "mousedown"
             /\ last'.mode = "outside"
             /\ UserMenu_render(user, menu.isOpen) = "dropdown"
             => ~menu'.isOpen
          /\ user = {} /\ user' = {} /\ menu.mounted /\ menu'.mounted
             => menu' = menu \/ Settled("signOut")']_vars

\* the first of two signOut calls that a mounted menu waits for has settled
C22_Witness ==
    /\ Settled("signOut")
    /\ last.pre.user # {}
    /\ menu.mounted
    /\ ~menu.isOpen
    /\ menu.awaiting = 1

\* C23: the user of the session context, the user of its session and the
\* user persisted as the active session have the fields id, email and
\* created_at and no other, and none of their strings is the password of a
\* stored account
PublicFields == {"id", "email", "created_at"}

StoredPasswords == {r.password : r \in UNION {users[e] : e \in Emails}}

Exposed ==
    user \cup {s.user : s \in session} \cup localStorage.formatflex_current_user

C23_NoPassword ==
    \A u \in Exposed :
        /\ DOMAIN u = PublicFields
        /\ u.id \notin StoredPasswords
        /\ u.email \notin StoredPasswords

\* a signed-in user whose account record, with its password, is stored
C23_Witness ==
    /\ user # {}
    /\ session # {}
    /\ localStorage.formatflex_current_user = user
    /\ \E u \in user : \E r \in users[u.email] : r.password \in Passwords
    /\ Settled("signIn")

\* C24: a pending call of the session context leaves the pending calls only
\* by settling, one call per step, and the step that settles it applies its
\* result to user and session (a successful signUp/signIn or a restore that
\* found a user sets them, a signOut clears them, a failed call leaves
\* them); every pending call settles eventually. Neither a signOut that
\* settles first nor the unmount of the menu that started a signOut takes a
\* call away
Ops == {"restore", "signUp", "signIn", "signOut"}

C24_Applied ==
    /\ last'.ev = "settle"
    /\ \E i \in 1..Len(calls) :
          /\ calls' = SubSeq(calls, 1, i - 1)
                         \o SubSeq(calls, i + 1, Len(calls))
          /\ last'.op = calls[i].op
    /\ IF last'.op = "signOut"
       THEN user' = {} /\ session' = {}
       ELSE IF last'.error = "" /\ last'.ruser # {}
            THEN user' = last'.ruser /\ session' = SessionOf(last'.ruser)
            ELSE user' = user /\ session' = session

C24_Started ==
    /\ last'.ev = "invoke"
    /\ SubSeq(calls', 1, Len(calls)) = calls
    /\ Len(calls') = Len(calls) + 1

C24_RunsToCompletion ==
    /\ [][calls' # calls => C24_Applied \/ C24_Started]_vars
    /\ \A op \in Ops :
          (\E i \in 1..Len(calls) : calls[i].op = op) ~> Settled(op)

\* the signOut that a menu started has settled after the menu unmounted and
\* while a signIn is in flight
C24_Witness ==
    /\ Settled("signOut")
    /\ last.pre.user # {}
    /\ user = {}
    /\ ~menu.mounted
    /\ menu.stale = 0
    /\ \E i \in 1..Len(calls) : calls[i].op = "signIn"

\* C25: local storage (the account mapping and the active-session item)
\* changes only in a step in which a signUp, signIn or signOut of the
\* service completes; every other step of the provider, the guard, the
\* modal and the user menu, a page reload included, leaves it as it is
ServiceStep == last.ev = "settle" /\ last.op \in {"signUp", "signIn", "signOut"}

C25_StoreFrame ==
    [][~ServiceStep' => localStorage' = localStorage]_vars

\* the user menu has started a signOut, which is pending, and the store
\* holds an account and the active-session item
C25_Witness ==
    /\ last.ev = "invoke"
    /\ \E i \in 1..Len(calls) : calls[i].op = "signOut"
    /\ localStorage.formatflex_current_user # {}
    /\ localStorage.formatflex_users # {}

\* C26: while user is null, a click on the start button or on the download
\* button of the demo only opens the sign-up prompt: isProcessing,
\* currentStep, the timers and the download dialog stay as they are; Sign
\* Up Free closes the prompt and dispatches one openAuth event with mode
\* signup, which a mounted App answers by opening its modal in that mode
C26_DemoGate ==
    [][/\ user = {} /\ last'.ev \in {"demoStart", "demoDownload"}
            => demo' = [demo EXCEPT !.showAuthPrompt = TRUE]
       /\ last'.ev = "openAuth"
            => /\ demo.showAuthPrompt
               /\ demo' = [demo EXCEPT !.showAuthPrompt = FALSE]
               /\ last'.mode = "signup"
               /\ app.mounted
                    => app'.isAuthModalOpen /\ app'.authMode = "signup"]_vars

\* a visitor who signed out after the result appeared has clicked the
\* download button
C26_Witness ==
    /\ last.ev = "demoDownload"
    /\ user = {}
    /\ demo.showResult
    /\ demo.showAuthPrompt
    /\ ~demo.showEmailCapture

\* C27: currentStep moves only from 0 to 1 by a start click of a signed-in
\* user, from 1 to 2 by the first timer and from 2 to 3 by the second
\* timer; the progress text is the one of the step; the formatted result
\* and the download button are rendered at step 3 only; a pipeline that
\* was started reaches step 3
C27_StepOrder ==
    /\ demo.currentStep' # demo.currentStep
    /\ demo.currentStep' = demo.currentStep + 1
    /\ \/ demo.currentStep' = 1 /\ last'.ev = "demoStart" /\ user # {}
       \/ demo.currentStep' = 2 /\ last'.ev = "demoTimer1"
       \/ demo.currentStep' = 3 /\ last'.ev = "demoTimer2"

C27_Pipeline ==
    /\ [][demo.currentStep' # demo.currentStep => C27_StepOrder]_vars
    /\ [](/\ demo.currentStep \in 0..3
          /\ demo.currentStep = 1
               => InteractiveDemo_progress(demo) = "Analyzing structure..."
          /\ demo.currentStep = 2
               => InteractiveDemo_progress(demo) = "Applying formatting..."
          /\ InteractiveDemo_result(demo) => demo.currentStep = 3
          /\ InteractiveDemo_downloadButton(demo) => demo.currentStep = 3
          /\ demo.currentStep = 3 => InteractiveDemo_result(demo))
    /\ (demo.currentStep = 1) ~> (demo.currentStep = 2)
    /\ (demo.currentStep = 2) ~> (demo.currentStep = 3)

\* the second timer has just finished the pipeline of a signed-in user
C27_Witness ==
    /\ last.ev = "demoTimer2"
    /\ demo.currentStep = 3
    /\ demo.runs1 = 1
    /\ InteractiveDemo_result(demo)
    /\ InteractiveDemo_downloadButton(demo)
    /\ user # {}

\* C28: whenever no restore, signUp, signIn or signOut of the session
\* context is pending, the user of the context is the current user of the
\* service: both none, or the same account
C28_ContextTracksService ==
    calls = <<>> => user = currentUser

\* two signIn calls for different accounts were pending together and the
\* second of them has settled; nothing is pending
C28_Witness ==
    /\ calls = <<>>
    /\ Settled("signIn")
    /\ last.raced
    /\ last.error = ""
    /\ user # {}
    /\ last.pre.user # user

\* C29: isProcessing and showResult are never both true; showResult, once
\* true, stays true; the start button is rendered exactly while both are
\* false; the pipeline of a mounted demo is started at most once, each of
\* its two timer callbacks runs at most once and at most one timer is
\* pending
C29_StartedOnce ==
    /\ [](/\ ~(demo.isProcessing /\ demo.showResult)
          /\ InteractiveDemo_startButton(demo)
                <=> ~demo.isProcessing /\ ~demo.showResult
          /\ demo.starts <= 1
          /\ demo.runs1 <= 1
          /\ demo.runs2 <= 1
          /\ demo.timer1 + demo.timer2 <= 1
          /\ demo.isProcessing <=> demo.timer1 + demo.timer2 = 1)
    /\ [][/\ demo.showResult => demo'.showResult
          /\ demo'.starts # demo.starts
                => ~demo.isProcessing /\ ~demo.showResult]_vars

\* after the result appeared, the user has downloaded the sample and the
\* start button is gone
C29_Witness ==
    /\ last.ev = "dialogDownload"
    /\ demo.showResult
    /\ ~demo.isProcessing
    /\ ~InteractiveDemo_startButton(demo)
    /\ demo.starts = 1
    /\ demo.runs1 = 1
    /\ demo.runs2 = 1

\* C30: in every state in which the formatted result is shown, the
\* Download Full Sample button or the download dialog is rendered
C30_CanDownload ==
    InteractiveDemo_result(demo)
        => \/ InteractiveDemo_downloadButton(demo)
           \/ InteractiveDemo_downloadDialog(demo, user)

====
